---- MODULE Spec2Model ----
(***************************************************************************)
(* The document-synchronisation and diagnostics pipeline of the wenyan     *)
(* language server.  The repository holds two builds of the server that    *)
(* differ in validateDocument and in onCompletion:                         *)
(*   part_000  reads error.line / error.column of the WenyanError;         *)
(*   part_001  scans error.message for the markers /第(\d+)行/ and           *)
(*             /第(\d+)列/ (part_002 is part_001 without its comments).      *)
(* The variable `server` says which build is running.                      *)
(*                                                                         *)
(* Characters are written as short ASCII names, one string per character:  *)
(*   "di" = 第, "hang" = 行, "lie" = 列, "0".."9" the digits, "x" any other   *)
(*   character of a message; "huo" = 或 and the other readings are the       *)
(*   characters of the completion labels, " " a blank, "\n" a line break.  *)
(*   A text or a message is a sequence of characters.                      *)
(*                                                                         *)
(* A JavaScript value that may be undefined is a sequence of length at     *)
(* most one: << >> is undefined, <<v>> is the value v.                     *)
(***************************************************************************)
EXTENDS Integers, Sequences, FiniteSets, TLC

VARIABLES server, documents, sent, clientDiagnostics, last, response

vars == <<server, documents, sent, clientDiagnostics, last, response>>

----------------------------------------------------------------------------
(* Bounds of the model. *)

\* longest document text, in characters
MaxTextLen == 1

\* largest document version a client supplies
MaxVersion == 2

\* largest line / column number of a failure (explicit field or marker)
MaxNum == 2

\* most segments (plain text or a marker) of a failure message
MaxSegs == 2

\* longest document text of a completion request, in characters
MaxCompletionLen == 3

----------------------------------------------------------------------------
(* Values. *)

Servers == {"part_000", "part_001"}

Undefined == << >>

Some(v) == <<v>>

Min(S) == CHOOSE m \in S : \A n \in S : m <= n

RECURSIVE SeqsUpTo(_, _)
SeqsUpTo(S, n) ==
    IF n = 0 THEN {<< >>}
    ELSE LET shorter == SeqsUpTo(S, n - 1)
         IN  shorter \cup {Append(s, c) : s \in {t \in shorter : Len(t) = n - 1}, c \in S}

RECURSIVE Concat(_)
Concat(ss) == IF ss = << >> THEN << >> ELSE Head(ss) \o Concat(Tail(ss))

DigitChars == {"0", "1", "2", "3", "4", "5", "6", "7", "8", "9"}

DigitVal(c) ==
    CASE c = "0" -> 0 [] c = "1" -> 1 [] c = "2" -> 2 [] c = "3" -> 3 [] c = "4" -> 4
      [] c = "5" -> 5 [] c = "6" -> 6 [] c = "7" -> 7 [] c = "8" -> 8 [] c = "9" -> 9

DigitChar(d) ==
    CASE d = 0 -> "0" [] d = 1 -> "1" [] d = 2 -> "2" [] d = 3 -> "3" [] d = 4 -> "4"
      [] d = 5 -> "5" [] d = 6 -> "6" [] d = 7 -> "7" [] d = 8 -> "8" [] d = 9 -> "9"

\* the decimal digits of a natural number, as the engine prints it in a message
RECURSIVE Decimal(_)
Decimal(n) == IF n < 10 THEN <<DigitChar(n)>> ELSE Append(Decimal(n \div 10), DigitChar(n % 10))

----------------------------------------------------------------------------
(* What the external lexer/parser throws.  A thrown value is a record       *)
(*   kind     "WenyanError" (the engine's structured error), "Error" (any   *)
(*            other error object), "string" (a thrown primitive), "null",   *)
(*            "undefined", or "none" when nothing is thrown;                *)
(*   message  its message property, possibly undefined;                     *)
(*   line, column   its line and column properties, possibly undefined.     *)

LineMarker(n) == <<"di">> \o Decimal(n) \o <<"hang">>

ColumnMarker(n) == <<"di">> \o Decimal(n) \o <<"lie">>

\* the numbers the engine writes into a marker: 0, 1, .. and one of two digits
MarkerNums == (0 .. MaxNum) \cup {10 + MaxNum}

\* the values of an explicit line or column field (0 and -1 are off by the 1-based rule)
FieldNums == (-1) .. MaxNum

Segments ==
    {<<"x">>, <<"di", "hang">>, <<"di", "-", "1", "lie">>}
        \cup {LineMarker(n) : n \in MarkerNums}
        \cup {ColumnMarker(n) : n \in MarkerNums}

Messages == {Concat(ss) : ss \in SeqsUpTo(Segments, MaxSegs)}

OptionalNums == {Undefined} \cup {Some(n) : n \in FieldNums}

NoThrow == [kind |-> "none", message |-> Undefined, line |-> Undefined, column |-> Undefined]

WenyanErrors ==
    [kind : {"WenyanError"}, message : {Some(m) : m \in Messages},
     line : OptionalNums, column : OptionalNums]

OtherErrors ==
    [kind : {"Error"}, message : {Undefined, Some(<< >>), Some(<<"x">>)},
     line : {Undefined}, column : {Undefined}]
        \cup [kind : {"string", "null", "undefined"}, message : {Undefined},
              line : {Undefined}, column : {Undefined}]

\* an outcome of tokenize-then-parse: nothing thrown, or a value thrown by one stage
Succeeds == [stage |-> "none", thrown |-> NoThrow]

Outcomes == {Succeeds} \cup [stage : {"tokenize", "parse"}, thrown : WenyanErrors \cup OtherErrors]

----------------------------------------------------------------------------
(* String.prototype.match with /第(\d+)行/ and /第(\d+)列/, and parseInt.     *)

\* the longest run of digits of s that starts at index i
RECURSIVE DigitRun(_, _)
DigitRun(s, i) ==
    IF i <= Len(s) /\ s[i] \in DigitChars THEN <<s[i]>> \o DigitRun(s, i + 1) ELSE << >>

\* s.match(/open(\d+)close/): capture group 1 of the leftmost match, or undefined (null)
match(s, open, close) ==
    LET hits == {i \in 1 .. Len(s) :
                    /\ s[i] = open
                    /\ DigitRun(s, i + 1) # << >>
                    /\ i + Len(DigitRun(s, i + 1)) + 1 <= Len(s)
                    /\ s[i + Len(DigitRun(s, i + 1)) + 1] = close}
    IN  IF hits = {} THEN Undefined ELSE Some(DigitRun(s, Min(hits) + 1))

\* parseInt of a non-empty run of decimal digits
RECURSIVE parseInt(_)
parseInt(ds) ==
    IF Len(ds) = 1 THEN DigitVal(ds[1])
    ELSE 10 * parseInt(SubSeq(ds, 1, Len(ds) - 1)) + DigitVal(ds[Len(ds)])

----------------------------------------------------------------------------
(* validateDocument: the diagnostics of one validation pass.               *)

\* DiagnosticSeverity.Error
SeverityError == 1

\* the fallback message '未知错误' of the non-WenyanError branch
UnknownErrorMessage == <<"wei", "zhi", "cuo", "wu">>

Position(l, c) == [line |-> l, character |-> c]

Range(s, e) == [start |-> s, end |-> e]

\* part_000: error.line - 1 || 0   (undefined - 1 is NaN, and NaN and 0 are falsy)
MinusOneOrZero(v) == IF v = Undefined \/ v[1] - 1 = 0 THEN 0 ELSE v[1] - 1

\* (error.column || 0) - 1: the end of the range computed like its start
OrZeroMinusOne(v) == IF v = Undefined \/ v[1] = 0 THEN -1 ELSE v[1] - 1

\* part_000: (error.column || 0) + 1
OrZeroPlusOne(v) == IF v = Undefined \/ v[1] = 0 THEN 1 ELSE v[1] + 1

\* the range of the WenyanError branch of part_000
explicitRange(error) ==
    Range(Position(MinusOneOrZero(error.line), MinusOneOrZero(error.column)),
          Position(MinusOneOrZero(error.line), OrZeroPlusOne(error.column)))

\* markerRange with the default position taken as 1-based (1, 1) instead of 0-based
markerRangeDefaultOne(error) ==
    LET lineMatch == match(error.message[1], "di", "hang")
        columnMatch == match(error.message[1], "di", "lie")
        line == IF lineMatch # Undefined THEN parseInt(lineMatch[1]) - 1 ELSE 1
        column == IF columnMatch # Undefined THEN parseInt(columnMatch[1]) - 1 ELSE 1
    IN  Range(Position(line, column), Position(line, column + 1))

\* the range of the WenyanError branch of part_001
markerRange(error) ==
    LET lineMatch == match(error.message[1], "di", "hang")
        columnMatch == match(error.message[1], "di", "lie")
        line == IF lineMatch # Undefined THEN parseInt(lineMatch[1]) - 1 ELSE 0
        column == IF columnMatch # Undefined THEN parseInt(columnMatch[1]) - 1 ELSE 0
    IN  Range(Position(line, column), Position(line, column + 1))

\* the diagnostic pushed for a WenyanError
wenyanDiagnostic(srv, error) ==
    [severity |-> SeverityError,
     range |-> IF srv = "part_000" THEN explicitRange(error) ELSE markerRange(error),
     message |-> error.message[1],
     source |-> "wenyan-lsp"]

\* the diagnostic pushed for any other thrown value that has properties:
\* error.message || '未知错误'  (undefined and the empty string are falsy)
otherDiagnostic(error) ==
    [severity |-> SeverityError,
     range |-> Range(Position(0, 0), Position(0, 1)),
     message |-> IF error.message = Undefined \/ error.message[1] = << >>
                 THEN UnknownErrorMessage ELSE error.message[1],
     source |-> "wenyan-lsp"]

\* reading error.message of null or undefined throws a TypeError inside the catch block
catchThrows(error) == error.kind \in {"null", "undefined"}

\* validateDocument that sends diagnostics only when it has pushed one
validateDocumentSilentOnSuccess(srv, document, outcome) ==
    IF outcome.stage = "none"
    THEN [fault |-> FALSE, sent |-> << >>]
    ELSE IF outcome.thrown.kind = "WenyanError"
    THEN [fault |-> FALSE,
          sent |-> <<[uri |-> document.uri,
                      diagnostics |-> <<wenyanDiagnostic(srv, outcome.thrown)>>]>>]
    ELSE IF catchThrows(outcome.thrown)
    THEN [fault |-> TRUE, sent |-> << >>]
    ELSE [fault |-> FALSE,
          sent |-> <<[uri |-> document.uri,
                      diagnostics |-> <<otherDiagnostic(outcome.thrown)>>]>>]

\* validateDocument whose diagnostics array outlives the pass: it still holds what the
\* earlier pass for the uri pushed
validateDocumentAccumulates(srv, document, outcome) ==
    LET earlier == IF document.uri \in DOMAIN clientDiagnostics
                   THEN clientDiagnostics[document.uri] ELSE << >>
    IN  IF outcome.stage = "none"
        THEN [fault |-> FALSE, sent |-> <<[uri |-> document.uri, diagnostics |-> earlier]>>]
        ELSE IF outcome.thrown.kind = "WenyanError"
        THEN [fault |-> FALSE,
              sent |-> <<[uri |-> document.uri,
                          diagnostics |-> Append(earlier, wenyanDiagnostic(srv, outcome.thrown))]>>]
        ELSE IF catchThrows(outcome.thrown)
        THEN [fault |-> TRUE, sent |-> << >>]
        ELSE [fault |-> FALSE,
              sent |-> <<[uri |-> document.uri,
                          diagnostics |-> Append(earlier, otherDiagnostic(outcome.thrown))]>>]

\* validateDocument(document) when the engine behaves as `outcome`: the notifications it
\* sends, and whether an exception leaves it
validateDocument(srv, document, outcome) ==
    IF outcome.stage = "none"
    THEN [fault |-> FALSE, sent |-> <<[uri |-> document.uri, diagnostics |-> << >>]>>]
    ELSE IF outcome.thrown.kind = "WenyanError"
    THEN [fault |-> FALSE,
          sent |-> <<[uri |-> document.uri,
                      diagnostics |-> <<wenyanDiagnostic(srv, outcome.thrown)>>]>>]
    ELSE IF catchThrows(outcome.thrown)
    THEN [fault |-> TRUE, sent |-> << >>]
    ELSE [fault |-> FALSE,
          sent |-> <<[uri |-> document.uri,
                      diagnostics |-> <<otherDiagnostic(outcome.thrown)>>]>>]

----------------------------------------------------------------------------
(* TextDocument of vscode-languageserver-textdocument: create, update,      *)
(* offsetAt and getText, as the handlers use them.                          *)

Ids == {"d1", "d2"}

LanguageIds == {"wenyan"}

Versions == 1 .. MaxVersion

\* the characters of the texts a client opens: one that starts a label of both tables
TextChars == {"huo"}

Texts == SeqsUpTo(TextChars, MaxTextLen)

Max2(a, b) == IF a >= b THEN a ELSE b

Min2(a, b) == IF a <= b THEN a ELSE b

\* TextDocument.create(uri, languageId, version, text)
create(uri, languageId, version, text) ==
    [uri |-> uri, languageId |-> languageId, version |-> version, text |-> text]

\* the 0-based offsets at which the lines of a text start
lineOffsets(text) == <<0>> \o SelectSeq([i \in 1 .. Len(text) |-> IF text[i] = "\n" THEN i ELSE -1],
                                        LAMBDA o : o >= 0)

\* document.offsetAt(position)
offsetAt(text, position) ==
    LET offsets == lineOffsets(text)
    IN  IF position.line >= Len(offsets) THEN Len(text)
        ELSE IF position.line < 0 THEN 0
        ELSE LET lineOffset == offsets[position.line + 1]
                 nextLineOffset == IF position.line + 1 < Len(offsets)
                                   THEN offsets[position.line + 2] ELSE Len(text)
             IN  Max2(Min2(lineOffset + position.character, nextLineOffset), lineOffset)

\* text.substring(from, to)
substring(text, from, to) == SubSeq(text, Min2(from, to) + 1, Max2(from, to))

\* document.getText(range)
getText(document, range) ==
    substring(document.text, offsetAt(document.text, range.start), offsetAt(document.text, range.end))

\* the range of an incremental change, its ends put in order
wellformedRange(range) ==
    IF \/ range.start.line > range.end.line
       \/ range.start.line = range.end.line /\ range.start.character > range.end.character
    THEN [start |-> range.end, end |-> range.start]
    ELSE range

\* one content change applied to a text: an incremental change replaces its range,
\* a full change (no range) replaces the whole text
applyChange(text, change) ==
    IF change.range # Undefined
    THEN LET range == wellformedRange(change.range[1])
             startOffset == offsetAt(text, range.start)
             endOffset == offsetAt(text, range.end)
         IN  SubSeq(text, 1, startOffset) \o change.text \o SubSeq(text, endOffset + 1, Len(text))
    ELSE change.text

RECURSIVE applyChanges(_, _)
applyChanges(text, changes) ==
    IF changes = << >> THEN text
    ELSE applyChanges(applyChange(text, Head(changes)), Tail(changes))

\* TextDocument.update(document, contentChanges, version)
update(document, changes, version) ==
    [document EXCEPT !.text = applyChanges(document.text, changes), !.version = version]

\* the positions a client sends
Positions == {Position(0, 0), Position(0, MaxTextLen), Position(1, 0)}

FullChanges == {[range |-> Undefined, text |-> t] : t \in Texts}

\* insert a character at the start; delete the first line (its ends given in reverse)
IncrementalChanges ==
    { [range |-> Some(Range(Position(0, 0), Position(0, 0))), text |-> <<"huo">>],
      [range |-> Some(Range(Position(1, 0), Position(0, 0))), text |-> << >>] }

\* the contentChanges lists a client sends: empty, one change, or a deletion
\* followed by an insertion
ChangeLists ==
    {<< >>} \cup {<<c>> : c \in FullChanges \cup IncrementalChanges}
            \cup {<<[range |-> Some(Range(Position(0, 0), Position(0, 1))), text |-> << >>],
                     [range |-> Some(Range(Position(0, 0), Position(0, 0))), text |-> <<"huo">>]>>}

----------------------------------------------------------------------------
(* The document store and the client's view of the published diagnostics.  *)

\* documents.set(uri, document)
set(docs, uri, document) == [u \in DOMAIN docs \cup {uri} |-> IF u = uri THEN document ELSE docs[u]]

\* documents.clear() in place of documents.delete(uri)
clear(docs, uri) == [u \in {} |-> docs[u]]

\* documents.delete(uri)
delete(docs, uri) == [u \in DOMAIN docs \ {uri} |-> docs[u]]

\* the client replaces the diagnostics of a uri by each list it is sent
RECURSIVE deliver(_, _)
deliver(view, notifications) ==
    IF notifications = << >> THEN view
    ELSE deliver(set(view, Head(notifications).uri, Head(notifications).diagnostics),
                 Tail(notifications))

NoResponse == [kind |-> "none", items |-> << >>, location |-> Undefined, hover |-> Undefined]

\* the engine did not run
NoRun == [stage |-> "norun", thrown |-> NoThrow]

Event(kind, uri, outcome, fault) == [kind |-> kind, uri |-> uri, outcome |-> outcome, fault |-> fault]

----------------------------------------------------------------------------
(* Completion: the static tables and the prefix filter.  Each character of  *)
(* a label is written by its reading; "hang" is the character of the line   *)
(* marker.  The detail and documentation strings of an item are left out.   *)

\* CompletionItemKind.Keyword, CompletionItemKind.Operator, and the kind part_000 writes
KindKeyword == 14

KindOperator == 24

KindLiteral13 == 13

Item(label, kind, insertText) == [label |-> label, kind |-> kind, insertText |-> insertText]

\* the keywords array of part_001
keywords001 ==
    << Item(<<"han", "yi4">>, KindKeyword, Undefined),   Item(<<"xu", "zhi">>, KindKeyword, Undefined),
       Item(<<"qiu">>, KindKeyword, Undefined),          Item(<<"yi3", "zhi">>, KindKeyword, Undefined),
       Item(<<"wei2">>, KindKeyword, Undefined),         Item(<<"ling">>, KindKeyword, Undefined),
       Item(<<"tang", "ruo">>, KindKeyword, Undefined),  Item(<<"zai", "ruo">>, KindKeyword, Undefined),
       Item(<<"zai", "ze">>, KindKeyword, Undefined),    Item(<<"fou", "ze">>, KindKeyword, Undefined),
       Item(<<"dang">>, KindKeyword, Undefined),         Item(<<"shi2", "fu", "hang">>, KindKeyword, Undefined),
       Item(<<"fu", "hang">>, KindKeyword, Undefined),   Item(<<"ci">>, KindKeyword, Undefined),
       Item(<<"yi">>, KindKeyword, Undefined),           Item(<<"shi4">>, KindOperator, Undefined),
       Item(<<"bu", "shi4">>, KindOperator, Undefined),  Item(<<"sheng", "yu">>, KindOperator, Undefined),
       Item(<<"bu", "ji">>, KindOperator, Undefined),    Item(<<"qie">>, KindOperator, Undefined),
       Item(<<"bing", "qie">>, KindOperator, Undefined), Item(<<"huo">>, KindOperator, Undefined),
       Item(<<"huo", "zhe">>, KindOperator, Undefined) >>

\* the keywords array of part_000, each mapped to its item
keywords000 ==
    << Item(<<"fu1">>, KindLiteral13, Some(<<"fu1">>)),   Item(<<"qie">>, KindLiteral13, Some(<<"qie">>)),
       Item(<<"huo">>, KindLiteral13, Some(<<"huo">>)),   Item(<<"ruo">>, KindLiteral13, Some(<<"ruo">>)),
       Item(<<"fou", "ze">>, KindLiteral13, Some(<<"fou", "ze">>)),
       Item(<<"wei2", "shi4">>, KindLiteral13, Some(<<"wei2", "shi4">>)),
       Item(<<"xun", "huan">>, KindLiteral13, Some(<<"xun", "huan">>)),
       Item(<<"fu", "hang">>, KindLiteral13, Some(<<"fu", "hang">>)),
       Item(<<"zhi3">>, KindLiteral13, Some(<<"zhi3">>)), Item(<<"fan">>, KindLiteral13, Some(<<"fan">>)),
       Item(<<"zhu", ":">>, KindLiteral13, Some(<<"zhu", ":">>)) >>

WhiteSpace == {" ", "\n"}

\* String.prototype.trim
RECURSIVE trim(_)
trim(s) ==
    IF s = << >> THEN s
    ELSE IF Head(s) \in WhiteSpace THEN trim(Tail(s))
    ELSE IF s[Len(s)] \in WhiteSpace THEN trim(SubSeq(s, 1, Len(s) - 1))
    ELSE s

\* String.prototype.startsWith
startsWith(s, prefix) == Len(prefix) <= Len(s) /\ SubSeq(s, 1, Len(prefix)) = prefix

\* the filter comparing the labels with the line as it is, not trimmed
filterKeywordsUntrimmed(srv, line) ==
    IF srv = "part_000"
    THEN SelectSeq(keywords000, LAMBDA kw : startsWith(kw.label, line))
    ELSE SelectSeq(keywords001, LAMBDA kw : line = << >> \/ startsWith(kw.label, line))

\* the filter of onCompletion over the table of the running build
filterKeywords(srv, line) ==
    IF srv = "part_000"
    THEN SelectSeq(keywords000, LAMBDA kw : startsWith(kw.label, trim(line)))
    ELSE SelectSeq(keywords001, LAMBDA kw : trim(line) = << >> \/ startsWith(kw.label, trim(line)))

----------------------------------------------------------------------------
(* The handlers.  `last` records the handler that ran: its kind, the uri it *)
(* was given, the outcome of the lexer/parser in its call of                *)
(* validateDocument (NoRun when it made none), and whether an exception     *)
(* left it.  `sent` holds the diagnostics notifications that handler sent,  *)
(* `response` the result it returned.                                       *)

\* onDidOpenTextDocument that keeps the snapshot of a uri it already holds
OpenKeepsExisting(uri, languageId, version, text, outcome) ==
    \E document \in {IF uri \in DOMAIN documents THEN documents[uri]
                     ELSE create(uri, languageId, version, text)} :
    \E result \in {validateDocument(server, document, outcome)} :
        /\ documents' = set(documents, document.uri, document)
        /\ sent' = result.sent
        /\ clientDiagnostics' = deliver(clientDiagnostics, result.sent)
        /\ last' = Event("open", uri, outcome, result.fault)
        /\ response' = NoResponse
        /\ UNCHANGED server

\* onDidOpenTextDocument that stores the snapshot only after a validation that returned
OpenStoresAfterValidation(uri, languageId, version, text, outcome) ==
    \E document \in {create(uri, languageId, version, text)} :
    \E result \in {validateDocument(server, document, outcome)} :
        /\ documents' = IF result.fault THEN documents ELSE set(documents, document.uri, document)
        /\ sent' = result.sent
        /\ clientDiagnostics' = deliver(clientDiagnostics, result.sent)
        /\ last' = Event("open", uri, outcome, result.fault)
        /\ response' = NoResponse
        /\ UNCHANGED server

\* connection.onDidOpenTextDocument
Open(uri, languageId, version, text, outcome) ==
    \E document \in {create(uri, languageId, version, text)} :
    \E result \in {validateDocument(server, document, outcome)} :
        /\ documents' = set(documents, document.uri, document)
        /\ sent' = result.sent
        /\ clientDiagnostics' = deliver(clientDiagnostics, result.sent)
        /\ last' = Event("open", uri, outcome, result.fault)
        /\ response' = NoResponse
        /\ UNCHANGED server

\* onDidChangeTextDocument that clears the diagnostics of a uri it does not hold
ChangePublishesWhenMissing(uri, contentChanges, version, outcome) ==
    IF uri \in DOMAIN documents
    THEN \E newDocument \in {update(documents[uri], contentChanges, version)} :
         \E result \in {validateDocument(server, newDocument, outcome)} :
             /\ Len(newDocument.text) <= MaxTextLen
             /\ documents' = set(documents, uri, newDocument)
             /\ sent' = result.sent
             /\ clientDiagnostics' = deliver(clientDiagnostics, result.sent)
             /\ last' = Event("change", uri, outcome, result.fault)
             /\ response' = NoResponse
             /\ UNCHANGED server
    ELSE /\ sent' = <<[uri |-> uri, diagnostics |-> << >>]>>
         /\ clientDiagnostics' = deliver(clientDiagnostics, <<[uri |-> uri, diagnostics |-> << >>]>>)
         /\ last' = Event("change", uri, NoRun, FALSE)
         /\ response' = NoResponse
         /\ UNCHANGED <<server, documents>>

\* onDidChangeTextDocument that treats a uri it does not hold as an empty document
ChangeCreatesMissing(uri, contentChanges, version, outcome) ==
    \E document \in {IF uri \in DOMAIN documents THEN documents[uri]
                     ELSE create(uri, "wenyan", version, << >>)} :
    \E newDocument \in {update(document, contentChanges, version)} :
    \E result \in {validateDocument(server, newDocument, outcome)} :
        /\ Len(newDocument.text) <= MaxTextLen
        /\ documents' = set(documents, uri, newDocument)
        /\ sent' = result.sent
        /\ clientDiagnostics' = deliver(clientDiagnostics, result.sent)
        /\ last' = Event("change", uri, outcome, result.fault)
        /\ response' = NoResponse
        /\ UNCHANGED server

\* connection.onDidChangeTextDocument
Change(uri, contentChanges, version, outcome) ==
    IF uri \in DOMAIN documents
    THEN \E newDocument \in {update(documents[uri], contentChanges, version)} :
         \E result \in {validateDocument(server, newDocument, outcome)} :
             /\ Len(newDocument.text) <= MaxTextLen
             /\ documents' = set(documents, uri, newDocument)
             /\ sent' = result.sent
             /\ clientDiagnostics' = deliver(clientDiagnostics, result.sent)
             /\ last' = Event("change", uri, outcome, result.fault)
             /\ response' = NoResponse
             /\ UNCHANGED server
    ELSE /\ sent' = << >>
         /\ last' = Event("change", uri, NoRun, FALSE)
         /\ response' = NoResponse
         /\ UNCHANGED <<server, documents, clientDiagnostics>>

\* onDidCloseTextDocument that publishes only for a uri the store held
CloseOnlyWhenOpen(uri) ==
    LET notification == [uri |-> uri, diagnostics |-> << >>]
        notifications == IF uri \in DOMAIN documents THEN <<notification>> ELSE << >>
    IN  /\ documents' = delete(documents, uri)
        /\ sent' = notifications
        /\ clientDiagnostics' = deliver(clientDiagnostics, notifications)
        /\ last' = Event("close", uri, NoRun, FALSE)
        /\ response' = NoResponse
        /\ UNCHANGED server

\* connection.onDidCloseTextDocument
Close(uri) ==
    LET notification == [uri |-> uri, diagnostics |-> << >>]
    IN  /\ documents' = delete(documents, uri)
        /\ sent' = <<notification>>
        /\ clientDiagnostics' = deliver(clientDiagnostics, <<notification>>)
        /\ last' = Event("close", uri, NoRun, FALSE)
        /\ response' = NoResponse
        /\ UNCHANGED server

\* connection.onCompletion
CompletionWholeLine(uri, position) ==
    /\ response' =
          IF uri \notin DOMAIN documents THEN [NoResponse EXCEPT !.kind = "completion"]
          ELSE LET line == getText(documents[uri], Range(Position(position.line, 0),
                                                         Position(position.line + 1, 0)))
               IN  [NoResponse EXCEPT !.kind = "completion", !.items = filterKeywords(server, line)]
    /\ sent' = << >>
    /\ last' = Event("completion", uri, NoRun, FALSE)
    /\ UNCHANGED <<server, documents, clientDiagnostics>>

\* connection.onCompletion
Completion(uri, position) ==
    /\ response' =
          IF uri \notin DOMAIN documents THEN [NoResponse EXCEPT !.kind = "completion"]
          ELSE LET line == getText(documents[uri], Range(Position(position.line, 0), position))
               IN  [NoResponse EXCEPT !.kind = "completion", !.items = filterKeywords(server, line)]
    /\ sent' = << >>
    /\ last' = Event("completion", uri, NoRun, FALSE)
    /\ UNCHANGED <<server, documents, clientDiagnostics>>

\* connection.onCompletionResolve (part_001 only)
CompletionResolve(item) ==
    /\ server = "part_001"
    /\ response' = [NoResponse EXCEPT !.kind = "resolve", !.items = <<item>>]
    /\ sent' = << >>
    /\ last' = Event("resolve", "", NoRun, FALSE)
    /\ UNCHANGED <<server, documents, clientDiagnostics>>

\* onDefinition without the `if (!document) return null` guard
DefinitionUnguarded(uri, position) ==
    /\ server = "part_001"
    /\ response' = [NoResponse EXCEPT
                       !.kind = "definition",
                       !.location = Some([uri |-> uri,
                                          range |-> Range(Position(position.line, 0),
                                                          Position(position.line, 10))])]
    /\ sent' = << >>
    /\ last' = Event("definition", uri, NoRun, FALSE)
    /\ UNCHANGED <<server, documents, clientDiagnostics>>

\* connection.onDefinition (part_001 only)
Definition(uri, position) ==
    /\ server = "part_001"
    /\ response' =
          IF uri \notin DOMAIN documents THEN [NoResponse EXCEPT !.kind = "definition"]
          ELSE [NoResponse EXCEPT
                   !.kind = "definition",
                   !.location = Some([uri |-> uri,
                                      range |-> Range(Position(position.line, 0),
                                                      Position(position.line, 10))])]
    /\ sent' = << >>
    /\ last' = Event("definition", uri, NoRun, FALSE)
    /\ UNCHANGED <<server, documents, clientDiagnostics>>

\* connection.onHover (part_001 only)
Hover(uri, position) ==
    /\ server = "part_001"
    /\ response' =
          IF uri \notin DOMAIN documents THEN [NoResponse EXCEPT !.kind = "hover"]
          ELSE LET line == getText(documents[uri], Range(Position(position.line, 0),
                                                         Position(position.line + 1, 0)))
               IN  [NoResponse EXCEPT !.kind = "hover", !.hover = Some(trim(line))]
    /\ sent' = << >>
    /\ last' = Event("hover", uri, NoRun, FALSE)
    /\ UNCHANGED <<server, documents, clientDiagnostics>>

----------------------------------------------------------------------------
(* Spec: the lifecycle of two documents.  The engine is a black box: each   *)
(* validation takes any of a few outcomes.                                  *)

NoDocuments == [u \in {} |-> create("d1", "wenyan", 1, << >>)]

NoDiagnostics == [u \in {} |-> << >>]

LifecycleOutcomes ==
    { Succeeds,
      [stage |-> "tokenize",
       thrown |-> [kind |-> "WenyanError", message |-> Some(LineMarker(2) \o ColumnMarker(1)),
                   line |-> Some(2), column |-> Some(1)]],
      [stage |-> "parse",
       thrown |-> [kind |-> "null", message |-> Undefined, line |-> Undefined,
                   column |-> Undefined]] }

Init ==
    /\ server \in Servers
    /\ documents = NoDocuments
    /\ sent = << >>
    /\ clientDiagnostics = NoDiagnostics
    /\ last = Event("none", "", NoRun, FALSE)
    /\ response = NoResponse

DidOpen ==
    \E uri \in Ids, languageId \in LanguageIds, version \in Versions, text \in Texts,
       outcome \in LifecycleOutcomes :
        Open(uri, languageId, version, text, outcome)

DidChange ==
    \E uri \in Ids, contentChanges \in ChangeLists, version \in Versions,
       outcome \in LifecycleOutcomes :
        Change(uri, contentChanges, version, outcome)

DidClose == \E uri \in Ids : Close(uri)

OnCompletion == \E uri \in Ids, position \in Positions : Completion(uri, position)

OnCompletionResolve ==
    \E i \in {1, Len(keywords001)} : CompletionResolve(keywords001[i])

OnDefinition == \E uri \in Ids, position \in Positions : Definition(uri, position)

OnHover == \E uri \in Ids, position \in Positions : Hover(uri, position)

Next ==
    \/ DidOpen
    \/ DidChange
    \/ DidClose
    \/ OnCompletion
    \/ OnCompletionResolve
    \/ OnDefinition
    \/ OnHover

Spec == Init /\ [][Next]_vars

----------------------------------------------------------------------------
(* SpecTranslate: the translation of one failure into a diagnostic.  One    *)
(* document is opened on a text for which the engine gives any outcome of   *)
(* Outcomes; the engine is deterministic, so a change that leaves the text  *)
(* as it is gets the same outcome again.                                    *)

TranslateOutcomes == {o \in Outcomes : o.stage # "tokenize"}

TranslateOpen ==
    /\ last.kind \in {"none", "close"}
    /\ \E outcome \in TranslateOutcomes : Open("d1", "wenyan", 1, << >>, outcome)

TranslateChange ==
    /\ last.kind = "open"
    /\ Change("d1", << >>, 1, last.outcome)

TranslateClose == Close("d1")

NextTranslate ==
    \/ TranslateOpen
    \/ TranslateChange
    \/ TranslateClose

SpecTranslate == Init /\ [][NextTranslate]_vars

----------------------------------------------------------------------------
(* SpecReopen: documents are opened, opened again and closed, with every    *)
(* version and text of Spec; no changes and no requests.                    *)

NextReopen ==
    \/ DidOpen
    \/ DidClose

SpecReopen == Init /\ [][NextReopen]_vars

----------------------------------------------------------------------------
(* SpecReplace: successive validation passes of two documents.  Each pass   *)
(* takes any outcome of ReplaceOutcomes, whatever the pass before it took:  *)
(* success, a failure of the lexer, or a failure of the parser.             *)

ReplaceOutcomes ==
    LifecycleOutcomes \cup
    { [stage |-> "parse",
       thrown |-> [kind |-> "WenyanError", message |-> Some(<<"x">>), line |-> Undefined,
                   column |-> Undefined]],
      [stage |-> "parse",
       thrown |-> [kind |-> "Error", message |-> Undefined, line |-> Undefined,
                   column |-> Undefined]] }

ReplaceOpen ==
    \E uri \in Ids, version \in Versions, outcome \in ReplaceOutcomes :
        Open(uri, "wenyan", version, << >>, outcome)

ReplaceChange ==
    \E uri \in Ids, version \in Versions, outcome \in ReplaceOutcomes :
        Change(uri, << >>, version, outcome)

ReplaceClose == \E uri \in Ids : Close(uri)

NextReplace ==
    \/ ReplaceOpen
    \/ ReplaceChange
    \/ ReplaceClose

SpecReplace == Init /\ [][NextReplace]_vars

----------------------------------------------------------------------------
(* SpecCompletion: completion requests on one document.  The document is    *)
(* opened once, on any text of labels' characters, blanks and line breaks   *)
(* that the engine accepts, and completion is then requested at any caret   *)
(* position, on, after and below the text.                                  *)

\* "huo" and "huo","zhe" are labels, "zhe" alone starts none
CompletionChars == {"huo", "zhe", " ", "\n"}

CompletionTexts == SeqsUpTo(CompletionChars, MaxCompletionLen)

CompletionPositions == {Position(l, c) : l \in 0 .. 2, c \in 0 .. MaxCompletionLen + 1}

CompleteOpen ==
    /\ last.kind = "none"
    /\ \E text \in CompletionTexts : Open("d1", "wenyan", 1, text, Succeeds)

CompleteRequest ==
    /\ last.kind \in {"open", "completion"}
    /\ \E position \in CompletionPositions : Completion("d1", position)

NextCompletion ==
    \/ CompleteOpen
    \/ CompleteRequest

SpecCompletion == Init /\ [][NextCompletion]_vars

----------------------------------------------------------------------------
(* The claims. *)

\* the last handler was Open or Change and it ran validateDocument
Validated == last.kind \in {"open", "change"} /\ last.outcome.stage \in {"none", "tokenize", "parse"}

\* ... and the engine threw its structured error
Structured == Validated /\ last.outcome.thrown.kind = "WenyanError"

\* the handler sent one notification, for its uri, with the list ds
Published(ds) == sent = <<[uri |-> last.uri, diagnostics |-> ds]>>

\* the handler sent one notification that carries one diagnostic
PublishedOne == Len(sent) = 1 /\ sent[1].uri = last.uri /\ Len(sent[1].diagnostics) = 1

TheDiagnostic == sent[1].diagnostics[1]

\* the number of the first marker 第n行 (close = "hang") or 第n列 (close = "lie") written
\* in a message, read off the message as the engine wrote it
FirstMarker(msg, close) ==
    LET At(i, n) == /\ i + Len(Decimal(n)) + 1 <= Len(msg)
                    /\ SubSeq(msg, i, i + Len(Decimal(n)) + 1) = <<"di">> \o Decimal(n) \o <<close>>
        places == {i \in 1 .. Len(msg) : \E n \in MarkerNums : At(i, n)}
    IN  IF places = {} THEN Undefined
        ELSE Some(CHOOSE n \in MarkerNums : At(Min(places), n))

\* id is closed and a Close(id) has published for it
ClosedAfterClose(id) == id \notin DOMAIN documents /\ id \in DOMAIN clientDiagnostics

NotifiedIn(notifications, id) == \E i \in 1 .. Len(notifications) : notifications[i].uri = id

\* C1: every Close(id) leaves the store without id and publishes exactly one
\* notification, for id, with an empty list, whether or not id was open.
C1_CloseRemovesAndPublishesEmpty ==
    last.kind = "close" =>
        /\ last.uri \notin DOMAIN documents
        /\ sent = <<[uri |-> last.uri, diagnostics |-> << >>]>>
        /\ clientDiagnostics[last.uri] = << >>
        /\ ~last.fault

\* a Close has run for an identifier while the other document stays open with diagnostics
C1_Witness ==
    /\ last.kind = "close"
    /\ last.uri \notin DOMAIN documents
    /\ sent = <<[uri |-> last.uri, diagnostics |-> << >>]>>
    /\ \E other \in DOMAIN documents : clientDiagnostics[other] # << >>

\* C2 as stated: once Close(id) has published, no step publishes for id while id stays
\* closed.
C2_NoPublishWhileClosed ==
    [][\A id \in Ids :
          (ClosedAfterClose(id) /\ id \notin DOMAIN documents') => ~NotifiedIn(sent', id)]_vars

\* C2 as amended: once Close(id) has published, the only steps that publish for id
\* while id stays closed are further Close(id) notifications; a Change(id) or a request
\* publishes nothing for id and leaves the client's diagnostics of id empty.
C2_OnlyCloseRepublishesWhileClosed ==
    [][\A id \in Ids :
          (/\ ClosedAfterClose(id)
           /\ id \notin DOMAIN documents'
           /\ ~(last'.kind = "close" /\ last'.uri = id))
          => (~NotifiedIn(sent', id) /\ clientDiagnostics'[id] = << >>)]_vars

\* a Change for an identifier arrived after its Close and published nothing
C2_Witness ==
    /\ last.kind = "change"
    /\ ClosedAfterClose(last.uri)
    /\ sent = << >>
    /\ clientDiagnostics[last.uri] = << >>

\* C3: a structured failure with an explicit 1-based line L and column C is published
\* with start (L-1, C-1).
C3_ExplicitPositionIsStart ==
    (/\ Structured
     /\ last.outcome.thrown.line # Undefined
     /\ last.outcome.thrown.column # Undefined
     /\ last.outcome.thrown.line[1] >= 1
     /\ last.outcome.thrown.column[1] >= 1)
    => (/\ PublishedOne
        /\ TheDiagnostic.range.start =
              Position(last.outcome.thrown.line[1] - 1, last.outcome.thrown.column[1] - 1))

\* C4: the diagnostic of a structured failure is one character wide on one line.
C4_OneCharacterWide ==
    Structured =>
        /\ PublishedOne
        /\ TheDiagnostic.range.end.line = TheDiagnostic.range.start.line
        /\ TheDiagnostic.range.end.character = TheDiagnostic.range.start.character + 1

\* C5: no published diagnostic has a negative line or character.
C5_NoNegativePosition ==
    \A i \in 1 .. Len(sent) : \A j \in 1 .. Len(sent[i].diagnostics) :
        LET range == sent[i].diagnostics[j].range
        IN  /\ range.start.line >= 0 /\ range.start.character >= 0
            /\ range.end.line >= 0 /\ range.end.character >= 0

\* C6: a structured failure without explicit line and column whose message holds a
\* line marker and a column marker is published with start (N-1, M-1), N and M the
\* numbers of the first line marker and of the first column marker.
C6_FirstMarkersAreStart ==
    (/\ Structured
     /\ last.outcome.thrown.line = Undefined
     /\ last.outcome.thrown.column = Undefined
     /\ FirstMarker(last.outcome.thrown.message[1], "hang") # Undefined
     /\ FirstMarker(last.outcome.thrown.message[1], "lie") # Undefined)
    => (/\ PublishedOne
        /\ TheDiagnostic.range.start =
              Position(FirstMarker(last.outcome.thrown.message[1], "hang")[1] - 1,
                       FirstMarker(last.outcome.thrown.message[1], "lie")[1] - 1))

\* C7: a structured failure with neither explicit line and column nor a marker in its
\* message is published with the range (0, 0) - (0, 1).
C7_DefaultPosition ==
    (/\ Structured
     /\ last.outcome.thrown.line = Undefined
     /\ last.outcome.thrown.column = Undefined
     /\ FirstMarker(last.outcome.thrown.message[1], "hang") = Undefined
     /\ FirstMarker(last.outcome.thrown.message[1], "lie") = Undefined)
    => (/\ PublishedOne
        /\ TheDiagnostic.range = Range(Position(0, 0), Position(0, 1)))

\* such a failure, with a message that has the marker characters but no marker, was
\* published by the build that scans the message
C7_Witness ==
    /\ server = "part_001"
    /\ Structured
    /\ last.outcome.thrown.line = Undefined
    /\ last.outcome.thrown.column = Undefined
    /\ last.outcome.thrown.message[1] = <<"di", "hang", "di", "-", "1", "lie">>
    /\ PublishedOne
    /\ TheDiagnostic.range = Range(Position(0, 0), Position(0, 1))

\* C8: when tokenize and parse succeed, the pass publishes the empty list for the
\* document, and the client holds no diagnostics for it afterwards.
C8_SuccessPublishesEmpty ==
    (Validated /\ last.outcome = Succeeds) =>
        /\ Published(<< >>)
        /\ clientDiagnostics[last.uri] = << >>
        /\ ~last.fault

\* a Change was validated successfully and its empty list is what the client holds
C8_Witness ==
    /\ last.kind = "change"
    /\ last.outcome = Succeeds
    /\ Published(<< >>)
    /\ clientDiagnostics[last.uri] = << >>

\* C9: a Change for an identifier the store does not hold changes nothing: the store
\* and the client's diagnostics stay as they are, no validation runs, nothing is
\* published and the handler does not fail.
C9_ChangeOfUnknownIsNoOp ==
    [][\A id \in Ids :
          (last'.kind = "change" /\ last'.uri = id /\ id \notin DOMAIN documents)
          => (/\ documents' = documents
              /\ clientDiagnostics' = clientDiagnostics
              /\ sent' = << >>
              /\ last'.outcome = NoRun
              /\ ~last'.fault)]_vars

\* a Change for an absent identifier has run while another document is open
C9_Witness ==
    /\ last.kind = "change"
    /\ last.uri \notin DOMAIN documents
    /\ last.outcome = NoRun
    /\ sent = << >>
    /\ DOMAIN documents # {}

\* C10: no exception leaves a lifecycle handler, whatever the engine throws.
C10_NoFaultEscapes == ~last.fault

\* C11: a thrown value that is not a WenyanError is published as exactly one
\* diagnostic: severity error, range (0,0)-(0,1), source 'wenyan-lsp', and the
\* failure's message, or the fallback message when it has none or an empty one.
C11_UnstructuredDiagnostic ==
    (Validated /\ last.outcome.stage # "none" /\ last.outcome.thrown.kind # "WenyanError")
    => (/\ PublishedOne
        /\ TheDiagnostic.severity = SeverityError
        /\ TheDiagnostic.range = Range(Position(0, 0), Position(0, 1))
        /\ TheDiagnostic.source = "wenyan-lsp"
        /\ TheDiagnostic.message =
              IF last.outcome.thrown.message \in {Undefined, Some(<< >>)}
              THEN UnknownErrorMessage ELSE last.outcome.thrown.message[1])

\* C12: every Open, and every Change of an open identifier, stores a snapshot, runs
\* one validation pass and publishes exactly one notification, for that identifier;
\* no lifecycle handler publishes twice or for another identifier.
C12_OnePassOnePublish ==
    /\ (last.kind = "open" \/ (last.kind = "change" /\ last.uri \in DOMAIN documents))
          => (/\ last.uri \in DOMAIN documents
              /\ Validated
              /\ Len(sent) = 1)
    /\ last.kind \in {"open", "change", "close"}
          => (Len(sent) <= 1 /\ \A i \in 1 .. Len(sent) : sent[i].uri = last.uri)

\* C13: the diagnostics the client last received for an open identifier are the
\* result of validating the snapshot the store holds for it: an Open or Change of id
\* leaves the client with the list of that pass, and any other step leaves both the
\* snapshot of id and the client's list for id as they were.
C13_LastStartWins ==
    [][\A id \in DOMAIN documents' :
          IF last'.kind \in {"open", "change"} /\ last'.uri = id
          THEN /\ ~validateDocument(server', documents'[id], last'.outcome).fault
               /\ id \in DOMAIN clientDiagnostics'
               /\ clientDiagnostics'[id] =
                     validateDocument(server', documents'[id], last'.outcome).sent[1].diagnostics
          ELSE /\ id \in DOMAIN documents /\ documents'[id] = documents[id]
               /\ id \in DOMAIN clientDiagnostics
               /\ clientDiagnostics'[id] = clientDiagnostics[id]]_vars

\* C14: the store holds a snapshot for id exactly when the most recent Open or Close
\* of id was an Open: Open(id) puts id in, Close(id) takes it out, and no other step
\* (Change and the requests included) adds or removes a key; each key maps to the
\* one snapshot of that uri.
C14_StoreHoldsTheOpenDocuments ==
    [][/\ \A id \in Ids :
             (id \in DOMAIN documents') <=>
                 IF last'.kind = "open" /\ last'.uri = id THEN TRUE
                 ELSE IF last'.kind = "close" /\ last'.uri = id THEN FALSE
                 ELSE id \in DOMAIN documents
       /\ \A id \in DOMAIN documents' : documents'[id].uri = id]_vars

\* an Open whose validation threw has still put its identifier into the store, after
\* the other identifier was opened and closed
C14_Witness ==
    /\ last.kind = "open"
    /\ last.fault
    /\ DOMAIN documents = {last.uri}
    /\ \E other \in DOMAIN clientDiagnostics : other # last.uri

\* C15: between its Open and its Close the version of the stored snapshot of an
\* identifier never decreases.
C15_VersionNeverDecreases ==
    [][\A id \in DOMAIN documents \cap DOMAIN documents' :
          documents'[id].version >= documents[id].version]_vars

\* C18: an Open for an identifier that is already open leaves exactly the snapshot
\* built from its own languageId, version and text under that identifier, and adds or
\* removes no key.
C18_ReopenOverwrites ==
    [][(last'.kind = "open" /\ last'.uri \in DOMAIN documents)
       => \A languageId \in LanguageIds, version \in Versions, text \in Texts :
             Open(last'.uri, languageId, version, text, last'.outcome)
             => (/\ DOMAIN documents' = DOMAIN documents
                 /\ documents'[last'.uri] = [uri |-> last'.uri, languageId |-> languageId,
                                             version |-> version, text |-> text])]_vars

\* an Open ran for an identifier that was open (the client still holds the diagnostic
\* of its earlier snapshot, because this Open's validation threw before publishing)
\* and the store holds the new snapshot
C18_Witness ==
    /\ last.kind = "open"
    /\ last.fault
    /\ last.uri \in DOMAIN clientDiagnostics
    /\ clientDiagnostics[last.uri] # << >>
    /\ last.uri \in DOMAIN documents
    /\ documents[last.uri].text # << >>

\* C19: an Open, Change or Close of one identifier leaves every other identifier as it
\* was in the store (present or absent, same snapshot) and publishes nothing for it.
C19_DocumentsAreIndependent ==
    [][\A b \in Ids :
          (last'.kind \in {"open", "change", "close"} /\ last'.uri # b)
          => (/\ (b \in DOMAIN documents') <=> (b \in DOMAIN documents)
              /\ b \in DOMAIN documents => documents'[b] = documents[b]
              /\ ~NotifiedIn(sent', b)
              /\ (b \in DOMAIN clientDiagnostics') <=> (b \in DOMAIN clientDiagnostics)
              /\ b \in DOMAIN clientDiagnostics => clientDiagnostics'[b] = clientDiagnostics[b])]_vars

\* one identifier was closed while the other stays open with its diagnostic
C19_Witness ==
    /\ last.kind = "close"
    /\ \E b \in DOMAIN documents :
          /\ b # last.uri
          /\ documents[b].text # << >>
          /\ clientDiagnostics[b] # << >>

\* C20: every published diagnostic has start <= end, lexicographically.
C20_StartNotAfterEnd ==
    \A i \in 1 .. Len(sent) : \A j \in 1 .. Len(sent[i].diagnostics) :
        LET range == sent[i].diagnostics[j].range
        IN  \/ range.start.line < range.end.line
            \/ /\ range.start.line = range.end.line
               /\ range.start.character <= range.end.character

\* the build that reads the fields has published a failure whose column is negative
C20_Witness ==
    /\ server = "part_000"
    /\ Structured
    /\ last.outcome.thrown.column = Some(-1)
    /\ last.outcome.thrown.line = Some(0)
    /\ PublishedOne
    /\ TheDiagnostic.range.start.character < 0

\* the static candidate table of the running build
StaticTable == IF server = "part_000" THEN keywords000 ELSE keywords001

\* line n (from 0) of a text, without its line break; empty when the text has no such line
RECURSIVE LineOf(_, _)
LineOf(text, n) ==
    LET breaks == {i \in 1 .. Len(text) : text[i] = "\n"}
        k == IF breaks = {} THEN Len(text) + 1 ELSE Min(breaks)
    IN  IF n = 0 THEN SubSeq(text, 1, k - 1)
        ELSE IF k > Len(text) THEN << >>
        ELSE LineOf(SubSeq(text, k + 1, Len(text)), n - 1)

\* the text of the caret line from column 0 up to the caret column, trimmed
TrimmedPrefix(text, position) ==
    LET line == LineOf(text, position.line)
    IN  trim(SubSeq(line, 1, Min2(position.character, Len(line))))

\* items holds exactly the entries of table whose label starts with prefix, in table order
ExactlyTheMatches(items, table, prefix) ==
    LET matching == {i \in 1 .. Len(table) : startsWith(table[i].label, prefix)}
    IN  /\ Len(items) = Cardinality(matching)
        /\ \A i \in matching : items[Cardinality({j \in matching : j <= i})] = table[i]

\* C16: a completion request on an open document returns exactly the entries of the
\* static table whose label starts with the trimmed text of the caret line up to the
\* caret, in table order, each once; the empty list when no label matches.
C16_CompletionIsPrefixFilter ==
    [][\A position \in CompletionPositions :
          ("d1" \in DOMAIN documents /\ Completion("d1", position))
          => (/\ response'.kind = "completion"
              /\ ExactlyTheMatches(response'.items, StaticTable,
                                   TrimmedPrefix(documents["d1"].text, position)))]_vars

\* on a text starting with a blank, "huo", "zhe" the newer build has answered a
\* request with the one entry that both characters select
C16_Witness ==
    /\ server = "part_001"
    /\ last.kind = "completion"
    /\ "d1" \in DOMAIN documents
    /\ documents["d1"].text = <<" ", "huo", "zhe">>
    /\ Len(response.items) = 1
    /\ response.items[1].label = <<"huo", "zhe">>

\* C17: a completion request whose trimmed line prefix is empty returns the whole
\* static table, in table order.
C17_EmptyPrefixGivesTable ==
    [][\A position \in CompletionPositions :
          (/\ "d1" \in DOMAIN documents
           /\ Completion("d1", position)
           /\ TrimmedPrefix(documents["d1"].text, position) = << >>)
          => response'.items = StaticTable]_vars

\* a request on a line of blanks only has been answered with the whole table
C17_Witness ==
    /\ last.kind = "completion"
    /\ "d1" \in DOMAIN documents
    /\ documents["d1"].text = <<" ", " ">>
    /\ response.items = StaticTable

\* the message of the one diagnostic that belongs to the failure of the last pass
MessageOfThisPass ==
    IF last.outcome.thrown.message \in {Undefined, Some(<< >>)}
    THEN UnknownErrorMessage ELSE last.outcome.thrown.message[1]

\* C21: every published list is the whole list of its own pass and the client's list
\* for the uri afterwards: empty on Close and after a validation that succeeded, and
\* exactly the one diagnostic of this pass's failure after a tokenize or a parse
\* failure; it never has two entries, nor an entry of an earlier pass.
C21_PublishReplaces ==
    \A i \in 1 .. Len(sent) :
        LET ds == sent[i].diagnostics
        IN  /\ Len(ds) <= 1
            /\ last.kind = "close" => ds = << >>
            /\ (Validated /\ last.outcome.stage = "none") => ds = << >>
            /\ (Validated /\ last.outcome.stage \in {"tokenize", "parse"})
                  => (Len(ds) = 1 /\ ds[1].message = MessageOfThisPass)
            /\ sent[i].uri \in DOMAIN clientDiagnostics
            /\ clientDiagnostics[sent[i].uri] = ds

\* a Change (so the document had an earlier pass) whose parse failed has published
\* the one diagnostic of that failure
C21_Witness ==
    /\ last.kind = "change"
    /\ Structured
    /\ last.outcome.stage = "parse"
    /\ PublishedOne
    /\ TheDiagnostic.message = <<"x">>
    /\ clientDiagnostics[last.uri] = <<TheDiagnostic>>

\* C22: a completion, completion-resolve, definition or hover request leaves the store
\* and the client's diagnostics as they were and publishes nothing; for a uri that is
\* not in the store completion returns the empty list and definition and hover return
\* no result.
C22_RequestsAreReadOnly ==
    [][last'.kind \in {"completion", "resolve", "definition", "hover"}
       => (/\ documents' = documents
           /\ clientDiagnostics' = clientDiagnostics
           /\ sent' = << >>
           /\ response'.kind = last'.kind
           /\ (last'.kind # "resolve" /\ last'.uri \notin DOMAIN documents)
                 => (/\ response'.items = << >>
                     /\ response'.location = Undefined
                     /\ response'.hover = Undefined))]_vars

\* a definition request for a closed uri has returned null while the other uri is
\* open and holds a diagnostic
C22_Witness ==
    /\ last.kind = "definition"
    /\ last.uri \notin DOMAIN documents
    /\ response.location = Undefined
    /\ sent = << >>
    /\ \E b \in DOMAIN documents : clientDiagnostics[b] # << >>

====
